---- MODULE Spec2Model ----
(***************************************************************************)
(* Cloudflare worker entrypoint adapters of @effect/platform-cloudflare:   *)
(* one adapter (makeFetchHandler in its four variants, makeScheduledHandler,*)
(* makeQueueHandler, makeEmailHandler, makeTailHandler, makeEntrypoint)     *)
(* with its ManagedRuntime, its cached web handler, the per-invocation      *)
(* request context and the host's concurrent invocations and dispose calls. *)
(***************************************************************************)
EXTENDS Integers, Sequences, FiniteSets, TLC

(* ---------------------------------------------------------------- bounds *)
MaxInv == 2
MaxDispose == 2
MaxBg == 2
MaxBatch == 3

Invs == 1..MaxInv

\* the background fibers one invocation can fork with waitUntil
Fibers == 1..MaxBg

(* ------------------------------------------------------- adapter options *)
FetchVariants == {"api", "httpApp", "effect", "function"}
EventVariants == {"scheduled", "queue", "email", "tail"}
Variants == FetchVariants \cup EventVariants \cup {"bundle"}
CachedVariants == {"api", "httpApp"}

Kinds == {"fetch", "scheduled", "queue", "email", "tail"}

\* the handlers maps a bundle is constructed with (makeEntrypoint options.handlers)
BundleHandlers == {{"fetch", "queue"}, {"scheduled"}, {"email", "tail"}}

\* environment-bindings maps the host passes
Envs == {"e1", "e2"}

\* resources the layer acquires (Effect.acquireRelease in the layer), and the
\* order its construction acquires them in
Resources == {"r1", "r2"}
AcquireOrder == <<"r1", "r2">>

\* how the business logic of one invocation ends
LogicOutcomes == {"ok", "fail", "die"}

Absent == "absent"

\* makeFetchHandler dispatch on the options' shape; the other factories
\* accept an Effect (pull) or a function of the native arguments (push)
StylesOf(v) ==
  CASE v \in {"api", "httpApp", "effect"} -> {"pull"}
    [] v = "function" -> {"push"}
    [] OTHER -> {"pull", "push"}

\* the event kinds an adapter exports a handler for
KindsOf(v, handlers) ==
  CASE v \in FetchVariants -> {"fetch"}
    [] v = "bundle" -> handlers
    [] OTHER -> {v}

\* standalone event handlers are plain functions returning runPromise(...);
\* the fetch handlers and every bundle entry are async functions
IsAsyncHandler(v) == v \in FetchVariants \cup {"bundle"}

(* --------------------------------------------------------- context tags *)
EventTag(k) ==
  CASE k = "scheduled" -> "ScheduledController"
    [] k = "queue" -> "MessageBatch"
    [] k = "email" -> "ForwardableEmailMessage"
    [] k = "tail" -> "TailEvents"
    [] OTHER -> Absent

Tags == {"Env", "ExecutionContext", "ScheduledController", "MessageBatch",
         "ForwardableEmailMessage", "TailEvents", "Svc"}

EmptyContext == [t \in Tags |-> Absent]

\* the services the materialized layer provides: a service of its own and an
\* Env binding (a layer may include envLayer)
LayerContext == [EmptyContext EXCEPT !["Svc"] = "svc", !["Env"] = "envLayer"]

\* Context.make(tag, wrapper).pipe(Context.add(ExecutionContext, ...), Context.add(Env, env))
MakeRequestContext(k, i, env) ==
  [t \in Tags |->
     CASE t = "Env" -> env
       [] t = "ExecutionContext" -> "ctx" \o ToString(i)
       [] t = EventTag(k) -> "event" \o ToString(i)
       [] OTHER -> Absent]

\* Effect.provide(effect, requestContext): the request context is merged over
\* the runtime's context
MergeContextBaseWins(base, over) ==
  [t \in Tags |-> IF base[t] # Absent THEN base[t] ELSE over[t]]
MergeContext(base, over) ==
  [t \in Tags |-> IF over[t] # Absent THEN over[t] ELSE base[t]]

\* the runtime's context after a request context was provided over it: the
\* merge makes a new context and leaves the runtime's one as it was
RuntimeContextMergedInPlace(base, over) == MergeContext(base, over)
RuntimeContext(base, over) == base

\* the effect of either style is run with the request context provided
ProvidedContextPullOnly(st, ctx) == IF st = "pull" THEN ctx ELSE EmptyContext
ProvidedContext(st, ctx) == ctx

\* the arguments a handler function (push style) is called with: the wrapped
\* event, the env and the wrapped execution context
NoArgs == [event |-> Absent, env |-> Absent, ctx |-> Absent]
HandlerArgsFirstCall(st, i, env) ==
  IF st = "push"
  THEN [event |-> "event1", env |-> env, ctx |-> "ctx1"]
  ELSE NoArgs
HandlerArgs(st, i, env) ==
  IF st = "push"
  THEN [event |-> "event" \o ToString(i), env |-> env, ctx |-> "ctx" \o ToString(i)]
  ELSE NoArgs

\* requestContext is a const local to one call of the handler
ContextSlotShared(i) == 1
ContextSlot(i) == i

(* ------------------------------------------------------- ManagedRuntime *)
NewRuntime == [fiber |-> "none", closed |-> FALSE]

FiberSettled(r) == r.fiber \in {"done", "failed", "interrupted"}

\* runtimeEffect: fork the layer build once, afterwards await the same fiber
Materialize(r) ==
  IF r.fiber = "none" /\ ~r.closed THEN [r EXCEPT !.fiber = "forked"] ELSE r

\* what a caller of the materialization observes
MaterializeOutcome(r) ==
  CASE r.fiber = "done" -> "ok"
    [] r.fiber = "failed" -> "layer"
    [] r.fiber = "interrupted" -> "interrupt"
    [] r.fiber = "none" /\ r.closed -> "disposed"
    [] OTHER -> "pending"

\* dispose: close the scope once, running the release actions it holds and
\* interrupting a build fiber that is still running
RuntimeDispose(c) ==
  IF c.rt.closed THEN c
  ELSE [c EXCEPT !.rt = [closed |-> TRUE,
                         fiber |-> IF c.rt.fiber \in {"forked", "building"}
                                   THEN "interrupted" ELSE c.rt.fiber],
                 !.released = [x \in Resources |->
                                 IF x \in c.acquired THEN @[x] + 1 ELSE @[x]]]

(* ------------------------------------------------------------- adapters *)
\* the handler closes over the one runtime made when the adapter is constructed
HandlerRuntimeFresh(r) == NewRuntime
HandlerRuntime(r) == r

\* first request: await the handlerPromise made when the adapter is constructed
HandlerPromiseRebuild(bs) == <<Append(bs, "pending"), Len(bs) + 1>>
HandlerPromise(bs) == <<bs, 1>>

\* the app the web handler is made from: options.middleware(app) where a
\* middleware is supplied, else the app itself
BuiltAppPlain(mw, app) == app
BuiltApp(mw, app) == IF mw THEN "middleware(" \o app \o ")" ELSE app

\* the factories return { handler, dispose }; makeEntrypoint returns the
\* handlers only
HasDisposeEverywhere(v) == TRUE
HasDispose(v) == v # "bundle"

\* makeEntrypoint sets an entry of the export object for each handler that is
\* not undefined in options.handlers
EntrypointExportsAll(hs) == Kinds
EntrypointExports(hs) == {k \in Kinds : k \in hs}

\* the dispose an adapter returns
AdapterDisposeUnguarded(c) ==
  [c EXCEPT !.rt = RuntimeDispose(c).rt,
            !.released = [x \in Resources |->
                            IF x \in c.acquired THEN @[x] + 1 ELSE @[x]],
            !.raised = c.rt.closed]
AdapterDisposeNoop(c) == c
AdapterDisposeOnceBuilt(c) == IF c.rt.fiber = "done" THEN RuntimeDispose(c) ELSE c
AdapterDispose(c) == RuntimeDispose(c)

\* HttpApp.toWebHandlerRuntime(rt)(app): the web handler answers every
\* outcome of the app with a response
WebHandlerResultRejects(lg) == IF lg = "ok" THEN "status200" ELSE "rejected"
WebHandlerResult(lg) == IF lg = "ok" THEN "status200" ELSE "status500"

\* runtime.runPromise(Effect.provide(effect, requestContext)): the promise
\* resolves with the effect's value and rejects with its failure or defect
RunPromiseResultSwallow(k, lg) == IF k = "fetch" THEN "status200" ELSE "completed"
RunPromiseResult(k, lg) ==
  IF lg = "ok" THEN (IF k = "fetch" THEN "status200" ELSE "completed")
  ELSE "rejected"

\* the handler passes the effect to runtime.runPromise once, with no retry
LogicAttemptsRetryFailure(lg) == IF lg = "ok" THEN 1 ELSE 2
LogicAttempts(lg) == 1

\* an invocation runs no finalizer of the layer: the release counts after it
ReleasedByInvocationOnError(rel, acq, lg) ==
  [x \in Resources |-> IF lg # "ok" /\ x \in acq THEN rel[x] + 1 ELSE rel[x]]
ReleasedByInvocation(rel, acq, lg) == rel

\* the handler only reads cachedHandler: the slot after an invocation ended
CachedHandlerAfterResetOnError(cached, lg) == IF lg = "ok" THEN cached ELSE 0
CachedHandlerAfter(cached, lg) == cached

\* dispose is runtime.dispose alone: it leaves the fibers of the invocations
\* in flight as they are
InFlightAfterDisposeInterrupted(r) ==
  IF r.pc = "running"
  THEN [r EXCEPT !.pc = "done", !.result = "rejected", !.error = "interrupt"]
  ELSE r
InFlightAfterDispose(r) == r

\* the native outcome of an invocation whose business logic ended with lg
ResultOfAllWebHandler(v, k, lg) == WebHandlerResult(lg)
ResultOfAllRunPromise(v, k, lg) == RunPromiseResult(k, lg)
ResultOf(v, k, lg) ==
  IF v \in CachedVariants THEN WebHandlerResult(lg) ELSE RunPromiseResult(k, lg)

(* ------------------------------------------------------------ waitUntil *)
\* how a fiber that ran the effect to its end has exited
ExitOf(dest) ==
  CASE dest = "ok" -> "succeeded"
    [] dest = "fail" -> "failed"
    [] OTHER -> "died"

\* yield* Effect.fork(effect): waitUntil itself ends normally as soon as the
\* child fiber is forked, whatever the effect will end with
WaitUntilExitJoined(dest) == dest
WaitUntilExit(dest) == "ok"

\* Effect.fork makes the fiber a child of the fiber that calls waitUntil: a
\* child that is still running when its parent ends is interrupted
ChildAtParentExit(st) == IF st = "running" THEN "interrupted" ELSE st

\* Runtime.runPromise(runtime)(fiber.await ...): fiber.await succeeds with the
\* Exit of the fiber, so the promise given to ctx.waitUntil resolves
AwaitPromise(st) == "resolved"

\* Effect.tapErrorCause(Effect.logError) is applied to fiber.await, which
\* never fails: the Exit of the fiber is its success value
AwaitLogsError(st) == FALSE

\* fiber.await resumes once the fiber has exited, however it exited
AwaitReadyAtOnce(st) == st # "none"
AwaitReady(st) == st \notin {"none", "running"}

\* ctx.waitUntil(promise): the calls the host's waitUntil has received after
\* one more execution of the wrapper's waitUntil
NativeWaitUntilCallsTwice(n) == n + 2
NativeWaitUntilCalls(n) == n + 1

NoFiber == [st |-> "none", dest |-> "none", promise |-> "none", logged |-> FALSE]

(* ---------------------------------------------------------------- state *)
VARIABLES
  constructed,   \* the adapter factory has run
  variant,       \* which factory / options shape
  style,         \* "pull" or "push"
  handlers,      \* event kinds the adapter exports
  supplied,      \* event kinds options.handlers holds business logic for
  layerOk,       \* whether the layer's construction succeeds
  buildOk,       \* whether the web handler build succeeds
  middleware,    \* options.middleware is supplied
  rt,            \* the ManagedRuntime: build fiber and scope
  initCount,     \* times the layer's construction ran
  acquired,      \* resources the layer has acquired
  released,      \* times each resource's release action ran
  raised,        \* a dispose() call raised
  disposeCalls,  \* dispose() calls made
  builds,        \* promises of runtime.runPromise(build), in creation order
  buildError,    \* why each rejected build was rejected
  cachedHandler, \* 0 = undefined, else the build whose handler is cached
  applied,       \* times the middleware function was called
  handlerApp,    \* the app the cached web handler serves
  inv,           \* the invocations
  overlay,       \* the request contexts of the invocations in flight
  registry,      \* the context of the materialized runtime
  primary,       \* the fiber of an invocation whose logic calls waitUntil
  fibers,        \* the fibers that invocation forked, with their host promises
  batch,         \* the native MessageBatch the host passes to the queue handler
  queue,         \* the queue invocation: the messages its logic sees, its position
  acked,         \* ids of the messages ack() was called on
  retried        \* ids of the messages retry() was called on

vars == <<constructed, variant, style, handlers, supplied, layerOk, buildOk,
          middleware, rt, initCount, acquired, released, raised, disposeCalls,
          builds, buildError, cachedHandler, applied, handlerApp, inv, overlay,
          registry, primary, fibers, batch, queue, acked, retried>>

config == <<constructed, variant, style, handlers, supplied, layerOk, buildOk,
            middleware>>

mwvars == <<applied, handlerApp>>

bgvars == <<primary, fibers>>

queuevars == <<batch, queue, acked, retried>>

adaptervars == <<config, rt, initCount, acquired, released, raised,
                 disposeCalls, builds, buildError, cachedHandler, mwvars, inv,
                 overlay, registry>>

IdleInv ==
  [pc |-> "idle", kind |-> "none", env |-> "none", throws |-> FALSE,
   slow |-> FALSE, awaits |-> 0, servedBy |-> 0, app |-> "none", mat |-> "none",
   logic |-> "none", seenEnv |-> "none", seenEvent |-> "none", result |-> "none", error |-> "none",
   overlap |-> {}, seen |-> EmptyContext, args |-> NoArgs,
   closedAtStart |-> FALSE, starts |-> 0]

IdlePrimary ==
  [pc |-> "idle", kind |-> "none", logic |-> "none", result |-> "none",
   calls |-> 0, registered |-> 0]

IdleQueue == [pc |-> "idle", messages |-> <<>>, cursor |-> 0, result |-> "none"]

InFlight == {j \in Invs : inv[j].pc \notin {"idle", "done"}}

Init ==
  /\ constructed = FALSE
  /\ variant = "none"
  /\ style = "none"
  /\ handlers = {}
  /\ supplied = {}
  /\ layerOk = TRUE
  /\ buildOk = TRUE
  /\ middleware = FALSE
  /\ rt = NewRuntime
  /\ initCount = 0
  /\ acquired = {}
  /\ released = [x \in Resources |-> 0]
  /\ raised = FALSE
  /\ disposeCalls = 0
  /\ builds = <<>>
  /\ buildError = <<>>
  /\ cachedHandler = 0
  /\ applied = 0
  /\ handlerApp = "none"
  /\ inv = [i \in Invs |-> IdleInv]
  /\ overlay = [i \in Invs |-> EmptyContext]
  /\ registry = EmptyContext
  /\ primary = IdlePrimary
  /\ fibers = [f \in Fibers |-> NoFiber]
  /\ batch = <<>>
  /\ queue = IdleQueue
  /\ acked = {}
  /\ retried = {}


(* -------------------------------------------------------------- actions *)
\* handlerPromise = runtime.runPromise(build), evaluated by the factories that
\* cache a web handler; the other factories only call ManagedRuntime.make
ConstructBuilds(v) == IF v \in CachedVariants THEN <<"pending">> ELSE <<>>

ConstructRuntime(v) ==
  IF v \in CachedVariants THEN Materialize(NewRuntime) ELSE NewRuntime

\* module evaluation: one of the factories is called with its options
Construct ==
  /\ ~constructed
  /\ \E v \in Variants, lo \in BOOLEAN, bo \in BOOLEAN :
       \E st \in StylesOf(v),
          hs \in (IF v = "bundle" THEN BundleHandlers ELSE {KindsOf(v, {})}),
          mw \in (IF v = "api" THEN BOOLEAN ELSE {FALSE}) :
         /\ (v \notin CachedVariants => bo)
         /\ middleware' = mw
         /\ constructed' = TRUE
         /\ variant' = v
         /\ style' = st
         /\ handlers' = (IF v = "bundle" THEN EntrypointExports(hs) ELSE hs)
         /\ supplied' = hs
         /\ layerOk' = lo
         /\ buildOk' = bo
         /\ builds' = ConstructBuilds(v)
         /\ buildError' = [b \in 1..Len(ConstructBuilds(v)) |-> "none"]
         /\ rt' = ConstructRuntime(v)
  /\ UNCHANGED <<initCount, acquired, released, raised, disposeCalls,
                 cachedHandler, inv, overlay, registry, mwvars, bgvars, queuevars>>

\* the forked build fiber starts constructing the layer
LayerInit ==
  /\ rt.fiber = "forked"
  /\ rt' = [rt EXCEPT !.fiber = "building"]
  /\ initCount' = initCount + 1
  /\ UNCHANGED <<config, acquired, released, raised, disposeCalls, builds,
                 buildError, cachedHandler, inv, overlay, registry, mwvars, bgvars, queuevars>>

\* the layer's construction acquires its next resource
LayerAcquire ==
  /\ rt.fiber = "building"
  /\ acquired # Resources
  /\ acquired' = acquired \cup {AcquireOrder[Cardinality(acquired) + 1]}
  /\ UNCHANGED <<config, rt, initCount, released, raised, disposeCalls, builds,
                 buildError, cachedHandler, inv, overlay, registry, mwvars, bgvars, queuevars>>

\* the layer's construction ends: with all its resources acquired, or with a
\* failure after some of them
LayerFinish ==
  /\ rt.fiber = "building"
  /\ layerOk => acquired = Resources
  /\ IF layerOk
       THEN /\ rt' = [rt EXCEPT !.fiber = "done"]
            /\ registry' = LayerContext
       ELSE /\ rt' = [rt EXCEPT !.fiber = "failed"]
            /\ registry' = registry
  /\ acquired' = acquired
  /\ UNCHANGED <<config, initCount, released, raised, disposeCalls, builds,
                 buildError, cachedHandler, inv, overlay, mwvars, bgvars, queuevars>>

\* the build effect runs once the runtime is there: it makes the web handler
\* and stores it in cachedHandler, or the promise rejects
BuildSettle(b) ==
  /\ b \in 1..Len(builds)
  /\ builds[b] = "pending"
  /\ FiberSettled(rt)
  /\ IF rt.fiber = "done" /\ buildOk
       THEN /\ builds' = [builds EXCEPT ![b] = "resolved"]
            /\ cachedHandler' = b
            /\ applied' = IF middleware THEN applied + 1 ELSE applied
            /\ handlerApp' = BuiltApp(middleware, "app")
            /\ buildError' = buildError
       ELSE /\ builds' = [builds EXCEPT ![b] = "rejected"]
            /\ cachedHandler' = cachedHandler
            /\ UNCHANGED mwvars
            /\ buildError' = [buildError EXCEPT ![b] =
                 IF rt.fiber = "done" THEN "build" ELSE MaterializeOutcome(rt)]
  /\ UNCHANGED <<config, rt, initCount, acquired, released, raised,
                 disposeCalls, inv, overlay, registry, bgvars, queuevars>>

\* an invocation that got the runtime or the web handler, or failed to
Started(r, servedBy) ==
  [r EXCEPT !.pc = "running", !.mat = "ok", !.servedBy = servedBy]

Rejected(r, err) ==
  [r EXCEPT !.pc = "done", !.result = "rejected", !.error = err,
            !.mat = IF err = "build" THEN "ok" ELSE err]

\* if (cachedHandler) return cachedHandler(request, requestContext)
ServeCachedUnlessDisposed(r, cached, run) ==
  IF run.closed THEN Rejected(r, "disposed") ELSE Started(r, cached)
ServeCached(r, cached, run) == Started(r, cached)

\* the host calls the exported handler with its native arguments
Invoke(i) ==
  /\ constructed
  /\ inv[i].pc = "idle"
  /\ \A j \in Invs : j < i => inv[j].pc # "idle"
  /\ \E k \in handlers, env \in Envs,
        th \in (IF style = "push" THEN BOOLEAN ELSE {FALSE}) :
       LET r0 == [IdleInv EXCEPT !.kind = k, !.env = env, !.overlap = InFlight,
                                 !.args = HandlerArgs(style, i, env),
                                 !.closedAtStart = rt.closed]
           ctx == MakeRequestContext(k, i, env)
       IN
       IF variant \in CachedVariants
       THEN IF cachedHandler # 0
              THEN /\ inv' = [inv EXCEPT ![i] = ServeCached(r0, cachedHandler, rt)]
                   /\ overlay' = [overlay EXCEPT ![ContextSlot(i)] = ctx]
                   /\ UNCHANGED <<rt, builds, buildError>>
              ELSE LET hp == HandlerPromise(builds)
                       grew == Len(hp[1]) > Len(builds)
                   IN /\ builds' = hp[1]
                      /\ buildError' = IF grew THEN Append(buildError, "none")
                                       ELSE buildError
                      /\ rt' = IF grew THEN Materialize(rt) ELSE rt
                      /\ inv' = [inv EXCEPT ![i] =
                           [r0 EXCEPT !.pc = "awaitHandler", !.slow = TRUE,
                                      !.awaits = hp[2]]]
                      /\ overlay' = [overlay EXCEPT ![ContextSlot(i)] = ctx]
       ELSE IF th
              THEN /\ inv' = [inv EXCEPT ![i] =
                        [r0 EXCEPT !.pc = "done", !.throws = TRUE, !.starts = 1,
                                   !.logic = "throw", !.error = "logic",
                                   !.result = IF IsAsyncHandler(variant)
                                              THEN "rejected" ELSE "thrown"]]
                   /\ UNCHANGED <<rt, builds, buildError, overlay>>
              ELSE LET r1 == Materialize(HandlerRuntime(rt))
                       out == MaterializeOutcome(r1)
                   IN /\ rt' = r1
                      /\ inv' = [inv EXCEPT ![i] =
                           CASE out = "ok" -> Started(r0, 0)
                             [] out = "pending" ->
                                  [r0 EXCEPT !.pc = "awaitRuntime", !.slow = TRUE]
                             [] OTHER -> Rejected(r0, out)]
                      /\ overlay' = IF out \in {"ok", "pending"}
                                    THEN [overlay EXCEPT ![ContextSlot(i)] = ctx]
                                    ELSE overlay
                      /\ UNCHANGED <<builds, buildError>>
  /\ UNCHANGED <<config, initCount, acquired, released, raised, disposeCalls,
                 cachedHandler, registry, mwvars, bgvars, queuevars>>

\* a settled promise resumes every call that awaits it, not only the first:
\* awaiting holds the calls that have awaited the promise
AwaitersResumedFirstOnly(i, awaiting) == \A j \in awaiting : i <= j
AwaitersResumed(i, awaiting) == i \in awaiting

\* await handlerPromise settles for a first request
ResumeHandler(i) ==
  /\ inv[i].pc = "awaitHandler"
  /\ builds[inv[i].awaits] # "pending"
  /\ AwaitersResumed(i, {j \in Invs : inv[j].slow})
  /\ IF builds[inv[i].awaits] = "resolved"
       THEN /\ inv' = [inv EXCEPT ![i] = Started(@, inv[i].awaits)]
            /\ overlay' = overlay
       ELSE /\ inv' = [inv EXCEPT ![i] = Rejected(@, buildError[inv[i].awaits])]
            /\ overlay' = [overlay EXCEPT ![ContextSlot(i)] = EmptyContext]
  /\ UNCHANGED <<config, rt, initCount, acquired, released, raised,
                 disposeCalls, builds, buildError, cachedHandler, registry, mwvars, bgvars, queuevars>>

\* the build fiber the invocation awaits inside runPromise settles
ResumeRuntime(i) ==
  /\ inv[i].pc = "awaitRuntime"
  /\ FiberSettled(rt)
  /\ AwaitersResumed(i, {j \in Invs : inv[j].slow})
  /\ IF rt.fiber = "done"
       THEN /\ inv' = [inv EXCEPT ![i] = Started(@, 0)]
            /\ overlay' = overlay
       ELSE /\ inv' = [inv EXCEPT ![i] = Rejected(@, MaterializeOutcome(rt))]
            /\ overlay' = [overlay EXCEPT ![ContextSlot(i)] = EmptyContext]
  /\ UNCHANGED <<config, rt, initCount, acquired, released, raised,
                 disposeCalls, builds, buildError, cachedHandler, registry, mwvars, bgvars, queuevars>>

\* the business logic runs against the merged context and ends
RunLogic(i) ==
  /\ inv[i].pc = "running"
  /\ LET provided == ProvidedContext(style, overlay[ContextSlot(i)])
         merged == MergeContext(registry, provided)
     IN /\ \E lg \in LogicOutcomes :
             /\ inv' = [inv EXCEPT ![i] =
               [@ EXCEPT !.pc = "done",
                         !.logic = lg,
                         !.app = IF inv[i].servedBy # 0 THEN handlerApp
                                 ELSE "none",
                         !.starts = @ + LogicAttempts(lg),
                         !.seen = merged,
                         !.seenEnv = merged["Env"],
                         !.seenEvent =
                           IF inv[i].kind = "fetch" THEN "none"
                           ELSE merged[EventTag(inv[i].kind)],
                         !.result = ResultOf(variant, inv[i].kind, lg),
                         !.error = IF lg = "ok" THEN "none" ELSE "logic"]]
             /\ released' = ReleasedByInvocation(released, acquired, lg)
             /\ cachedHandler' = CachedHandlerAfter(cachedHandler, lg)
        /\ registry' = RuntimeContext(registry, provided)
  /\ overlay' = [overlay EXCEPT ![ContextSlot(i)] = EmptyContext]
  /\ UNCHANGED <<config, rt, initCount, acquired, raised,
                 disposeCalls, builds, buildError, mwvars, bgvars, queuevars>>

\* the host (or a test) calls the returned dispose
Dispose ==
  /\ constructed
  /\ HasDispose(variant)
  /\ disposeCalls < MaxDispose
  /\ LET c == AdapterDispose([rt |-> rt, acquired |-> acquired,
                              released |-> released, raised |-> raised])
     IN /\ rt' = c.rt
        /\ released' = c.released
        /\ raised' = c.raised
  /\ inv' = [i \in Invs |-> InFlightAfterDispose(inv[i])]
  /\ disposeCalls' = disposeCalls + 1
  /\ UNCHANGED <<config, initCount, acquired, builds, buildError,
                 cachedHandler, overlay, registry, mwvars, bgvars, queuevars>>

Next ==
  \/ Construct
  \/ LayerInit
  \/ LayerAcquire
  \/ LayerFinish
  \/ \E b \in 1..Len(builds) : BuildSettle(b)
  \/ \E i \in Invs : Invoke(i)
  \/ \E i \in Invs : ResumeHandler(i)
  \/ \E i \in Invs : ResumeRuntime(i)
  \/ \E i \in Invs : RunLogic(i)
  \/ Dispose

Spec == Init /\ [][Next]_vars

\* the steps the JavaScript event loop and the Effect scheduler take by
\* themselves once they are possible: the build fiber's steps, the settling
\* of a build promise, the resumption of an awaiting call, and business
\* logic that terminates
Progress ==
  \/ LayerInit
  \/ LayerAcquire
  \/ LayerFinish
  \/ \E b \in 1..Len(builds) : BuildSettle(b)
  \/ \E i \in Invs : ResumeHandler(i)
  \/ \E i \in Invs : ResumeRuntime(i)
  \/ \E i \in Invs : RunLogic(i)

\* the adapters the progress of waiting invocations is followed on: one that
\* awaits the cached handler's build and one that awaits the runtime
LiveVariants == {"httpApp", "queue"}

\* the state a factory leaves: makeFetchHandler({ httpApp, layer }) or
\* makeQueueHandler({ effect, layer }) has just returned
InitLive ==
  /\ constructed = TRUE
  /\ variant \in LiveVariants
  /\ style = "pull"
  /\ handlers = KindsOf(variant, {})
  /\ supplied = handlers
  /\ layerOk \in BOOLEAN
  /\ buildOk \in (IF variant \in CachedVariants THEN BOOLEAN ELSE {TRUE})
  /\ middleware = FALSE
  /\ rt = ConstructRuntime(variant)
  /\ initCount = 0
  /\ acquired = {}
  /\ released = [x \in Resources |-> 0]
  /\ raised = FALSE
  /\ disposeCalls = 0
  /\ builds = ConstructBuilds(variant)
  /\ buildError = [b \in 1..Len(ConstructBuilds(variant)) |-> "none"]
  /\ cachedHandler = 0
  /\ applied = 0
  /\ handlerApp = "none"
  /\ inv = [i \in Invs |-> IdleInv]
  /\ overlay = [i \in Invs |-> EmptyContext]
  /\ registry = EmptyContext
  /\ primary = IdlePrimary
  /\ fibers = [f \in Fibers |-> NoFiber]
  /\ batch = <<>>
  /\ queue = IdleQueue
  /\ acked = {}
  /\ retried = {}

NextLive ==
  \/ Progress
  \/ \E i \in Invs : Invoke(i)
  \/ Dispose

SpecLive == InitLive /\ [][NextLive]_vars /\ WF_vars(Progress)

(* ------------------------------------------- an invocation with waitUntil *)
\* an adapter whose runtime is materialized and, where it caches a web
\* handler, whose handler is built
InitBg ==
  /\ constructed = TRUE
  /\ variant \in Variants \ {"bundle"}
  /\ style \in StylesOf(variant)
  /\ handlers = KindsOf(variant, {})
  /\ supplied = handlers
  /\ layerOk = TRUE
  /\ buildOk = TRUE
  /\ middleware = FALSE
  /\ rt = [fiber |-> "done", closed |-> FALSE]
  /\ initCount = 1
  /\ acquired = Resources
  /\ released = [x \in Resources |-> 0]
  /\ raised = FALSE
  /\ disposeCalls = 0
  /\ builds = (IF variant \in CachedVariants THEN <<"resolved">> ELSE <<>>)
  /\ buildError = (IF variant \in CachedVariants THEN <<"none">> ELSE <<>>)
  /\ cachedHandler = (IF variant \in CachedVariants THEN 1 ELSE 0)
  /\ applied = 0
  /\ handlerApp = (IF variant \in CachedVariants THEN BuiltApp(FALSE, "app")
                   ELSE "none")
  /\ inv = [i \in Invs |-> IdleInv]
  /\ overlay = [i \in Invs |-> EmptyContext]
  /\ registry = LayerContext
  /\ primary = IdlePrimary
  /\ fibers = [f \in Fibers |-> NoFiber]
  /\ batch = <<>>
  /\ queue = IdleQueue
  /\ acked = {}
  /\ retried = {}

\* the host calls the handler; the business logic starts on the fiber of
\* runtime.runPromise
PrimaryInvoke ==
  /\ primary.pc = "idle"
  /\ \E k \in handlers :
       primary' = [primary EXCEPT !.pc = "running", !.kind = k]
  /\ UNCHANGED <<adaptervars, fibers, queuevars>>

\* the business logic calls ctx.waitUntil(effect): the effect is forked and
\* the promise that awaits the fiber is handed to the host's ctx.waitUntil
WaitUntil(f) ==
  /\ primary.pc = "running"
  /\ fibers[f].st = "none"
  /\ \A g \in Fibers : g < f => fibers[g].st # "none"
  /\ \E dest \in LogicOutcomes :
       IF WaitUntilExit(dest) = "ok"
       THEN /\ fibers' = [fibers EXCEPT ![f] =
                 [st |-> "running", dest |-> dest, promise |-> "pending",
                  logged |-> FALSE]]
            /\ primary' = [primary EXCEPT
                 !.calls = @ + 1,
                 !.registered = NativeWaitUntilCalls(@)]
       ELSE /\ fibers' = [fibers EXCEPT ![f] =
                 [st |-> ExitOf(dest), dest |-> dest, promise |-> "none",
                  logged |-> FALSE]]
            /\ primary' = [primary EXCEPT
                 !.pc = "returned", !.calls = @ + 1,
                 !.result = ResultOf(variant, primary.kind, WaitUntilExit(dest))]
  /\ UNCHANGED <<adaptervars, queuevars>>

\* a background fiber runs its effect to the end
FiberSettle(f) ==
  /\ fibers[f].st = "running"
  /\ fibers' = [fibers EXCEPT ![f].st = ExitOf(fibers[f].dest)]
  /\ UNCHANGED <<adaptervars, primary, queuevars>>

\* the fiber that awaits a background fiber for the host sees it end
AwaitFiber(f) ==
  /\ fibers[f].promise = "pending"
  /\ AwaitReady(fibers[f].st)
  /\ fibers' = [fibers EXCEPT ![f].promise = AwaitPromise(fibers[f].st),
                              ![f].logged = AwaitLogsError(fibers[f].st)]
  /\ UNCHANGED <<adaptervars, primary, queuevars>>

\* the business logic ends and the handler's promise settles; the fiber of
\* the invocation ends, and with it the children it still has
PrimaryReturn ==
  /\ primary.pc = "running"
  /\ \E lg \in LogicOutcomes :
       primary' = [primary EXCEPT
         !.pc = "returned", !.logic = lg,
         !.result = ResultOf(variant, primary.kind, lg)]
  /\ fibers' = [f \in Fibers |->
                  [fibers[f] EXCEPT !.st = ChildAtParentExit(fibers[f].st)]]
  /\ UNCHANGED <<adaptervars, queuevars>>

NextBg ==
  \/ PrimaryInvoke
  \/ \E f \in Fibers : WaitUntil(f)
  \/ \E f \in Fibers : FiberSettle(f)
  \/ \E f \in Fibers : AwaitFiber(f)
  \/ PrimaryReturn
  \/ Dispose

SpecBg == InitBg /\ [][NextBg]_vars

(* ------------------------------------------------- a queue batch invocation *)
\* the body of a message: its valid field is true, false or not set
MessageBodies == {"valid", "invalid", "unset"}

\* the id the host gives the message at a position of the batch
MessageId(n) == "msg-" \o ToString(n - 1)

\* the batches the host delivers: up to MaxBatch messages with distinct ids
Batches ==
  UNION {{[n \in 1..len |-> [id |-> MessageId(n), body |-> b[n]]] :
            b \in [1..len -> MessageBodies]} : len \in 0..MaxBatch}

\* makeMessageBatch: messages: batch.messages
WrapperMessagesWithoutFirst(msgs) ==
  IF msgs = <<>> THEN msgs ELSE Tail(msgs)
WrapperMessages(msgs) == msgs

\* the queue worker's test: msg.body.valid !== false
ShouldAck(body) == body # "invalid"

\* a queue adapter whose runtime is materialized, and the batch of one delivery
InitQueue ==
  /\ constructed = TRUE
  /\ variant = "queue"
  /\ style \in StylesOf(variant)
  /\ handlers = KindsOf(variant, {})
  /\ supplied = handlers
  /\ layerOk = TRUE
  /\ buildOk = TRUE
  /\ middleware = FALSE
  /\ rt = [fiber |-> "done", closed |-> FALSE]
  /\ initCount = 1
  /\ acquired = Resources
  /\ released = [x \in Resources |-> 0]
  /\ raised = FALSE
  /\ disposeCalls = 0
  /\ builds = <<>>
  /\ buildError = <<>>
  /\ cachedHandler = 0
  /\ applied = 0
  /\ handlerApp = "none"
  /\ inv = [i \in Invs |-> IdleInv]
  /\ overlay = [i \in Invs |-> EmptyContext]
  /\ registry = LayerContext
  /\ primary = IdlePrimary
  /\ fibers = [f \in Fibers |-> NoFiber]
  /\ batch \in Batches
  /\ queue = IdleQueue
  /\ acked = {}
  /\ retried = {}

\* the host calls the queue handler with the batch: the business logic starts
\* with the wrapped batch as its MessageBatch
QueueInvoke ==
  /\ queue.pc = "idle"
  /\ queue' = [queue EXCEPT !.pc = "running",
                            !.messages = WrapperMessages(batch)]
  /\ UNCHANGED <<adaptervars, bgvars, batch, acked, retried>>

\* one turn of the loop over batch.messages: msg.ack() or msg.retry()
ProcessMessage ==
  /\ queue.pc = "running"
  /\ queue.cursor < Len(queue.messages)
  /\ LET msg == queue.messages[queue.cursor + 1]
     IN IF ShouldAck(msg.body)
          THEN /\ acked' = acked \cup {msg.id}
               /\ retried' = retried
          ELSE /\ retried' = retried \cup {msg.id}
               /\ acked' = acked
  /\ queue' = [queue EXCEPT !.cursor = @ + 1]
  /\ UNCHANGED <<adaptervars, bgvars, batch>>

\* the loop is over: the effect ends and the handler's promise resolves
QueueReturn ==
  /\ queue.pc = "running"
  /\ queue.cursor = Len(queue.messages)
  /\ queue' = [queue EXCEPT !.pc = "returned",
                            !.result = RunPromiseResult("queue", "ok")]
  /\ UNCHANGED <<adaptervars, bgvars, batch, acked, retried>>

NextQueue ==
  \/ QueueInvoke
  \/ ProcessMessage
  \/ QueueReturn

SpecQueue == InitQueue /\ [][NextQueue]_vars


(* ----------------------------------------------------------- properties *)
Served(i) == inv[i].servedBy # 0
LogicRan(i) == inv[i].logic \in LogicOutcomes

\* C1: however many invocations arrive before the web handler is built, the
\* build of the adapter's handler cache is run exactly once and every
\* invocation is served by the handler that one build made.
C1_BuildOnce ==
  /\ Len(builds) <= 1
  /\ cachedHandler \in {0, 1}
  /\ \A i \in Invs : Served(i) =>
       /\ Len(builds) = 1
       /\ builds[1] = "resolved"
       /\ inv[i].servedBy = 1
       /\ inv[i].servedBy = cachedHandler

C1_Witness ==
  \E i, j \in Invs :
    /\ i # j
    /\ i \in inv[j].overlap
    /\ inv[i].slow /\ inv[j].slow
    /\ inv[i].pc = "done" /\ inv[j].pc = "done"
    /\ inv[i].servedBy = 1 /\ inv[j].servedBy = 1
    /\ Len(builds) = 1

\* C2: over all invocations of one adapter the layer is constructed exactly
\* once, and all invocations observe the same outcome of the materialization.
C2_LayerOnce ==
  /\ initCount <= 1
  /\ \A i \in Invs : inv[i].mat \in {"ok", "layer"} => initCount = 1
  /\ \A i, j \in Invs :
       inv[i].mat # "none" /\ inv[j].mat # "none" => inv[i].mat = inv[j].mat

C2_Witness ==
  /\ variant = "queue"
  /\ initCount = 1
  /\ \E i, j \in Invs :
       /\ i # j
       /\ i \in inv[j].overlap
       /\ inv[i].mat = "ok" /\ inv[j].mat = "ok"
       /\ inv[i].pc = "done" /\ inv[j].pc = "done"

\* C3: dispose() is idempotent: no call raises, no release action runs more
\* than once, and a call after the first changes nothing.
C3_DisposeIdempotent ==
  [][/\ ~raised'
     /\ \A x \in Resources : released'[x] <= 1
     /\ (disposeCalls >= 1 /\ disposeCalls' = disposeCalls + 1) =>
          UNCHANGED <<config, rt, initCount, acquired, released, raised,
                      builds, buildError, cachedHandler, inv, overlay>>]_vars

C3_Witness ==
  /\ disposeCalls = 2
  /\ acquired = Resources
  /\ \A x \in Resources : released[x] = 1
  /\ ~raised
  /\ \E i \in Invs : inv[i].pc = "done"

\* C4: once dispose() has completed, every resource the layer acquired has had
\* its release action run exactly once, whatever the invocations did.
C4_ReleasedExactlyOnce ==
  disposeCalls >= 1 =>
    \A x \in Resources : released[x] = IF x \in acquired THEN 1 ELSE 0

C4_Witness ==
  /\ disposeCalls >= 1
  /\ acquired = Resources
  /\ \A x \in Resources : released[x] = 1
  /\ \E i \in Invs : inv[i].pc = "done" /\ inv[i].logic \in {"fail", "die"}

\* C5: an invocation that reads the per-invocation capabilities gets the
\* environment map and event passed to that invocation, also when invocations
\* overlap, and each invocation in flight holds its own request context.
C5_Isolation ==
  /\ \A i \in Invs : LogicRan(i) =>
       /\ inv[i].seenEnv = inv[i].env
       /\ inv[i].kind # "fetch" => inv[i].seenEvent = "event" \o ToString(i)
  /\ \A i \in Invs : inv[i].pc \in {"awaitHandler", "awaitRuntime", "running"} =>
       overlay[i] = MakeRequestContext(inv[i].kind, i, inv[i].env)

C5_Witness ==
  \E i, j \in Invs :
    /\ i \in inv[j].overlap
    /\ inv[i].env # inv[j].env
    /\ LogicRan(i) /\ LogicRan(j)
    /\ inv[i].seenEnv = inv[i].env
    /\ inv[j].seenEnv = inv[j].env

C8_EventFailuresReject ==
  \A i \in Invs :
    inv[i].kind \in Kinds \ {"fetch"} =>
      /\ inv[i].logic \in {"fail", "die"} => inv[i].result = "rejected"
      /\ inv[i].logic \in {"fail", "die", "throw"} => inv[i].result # "completed"

C8_Witness ==
  \E i, j \in Invs :
    /\ style = "push"
    /\ inv[i].kind \in Kinds \ {"fetch"}
    /\ inv[j].kind \in Kinds \ {"fetch"}
    /\ inv[i].logic = "die" /\ inv[i].result = "rejected"
    /\ inv[j].logic = "fail" /\ inv[j].result = "rejected"

\* what every invocation has observed once the layer's construction failed
LayerFailureObserved ==
  rt.fiber = "failed" =>
    /\ initCount = 1
    /\ \A i \in Invs :
         /\ inv[i].pc # "running"
         /\ inv[i].pc = "done" /\ ~inv[i].throws =>
              inv[i].result = "rejected" /\ inv[i].error = "layer"

C10_LazyStart ==
  (\A i \in Invs : inv[i].pc = "idle") =>
    /\ initCount = 0
    /\ rt.fiber = "none"
    /\ builds = <<>>

\* the handler cache slot of an adapter that caches a web handler
SlotState ==
  CASE cachedHandler # 0 -> "built"
    [] builds = <<>> -> "unbuilt"
    [] \E b \in 1..Len(builds) : builds[b] = "pending" -> "inProgress"
    [] OTHER -> "rejected"

\* C11: the handler cache slot never returns to unbuilt once it has left that
\* state, it is never in progress again once built, and once built the cached
\* handler is never cleared or replaced.
C11_SlotMonotone ==
  [][/\ SlotState # "unbuilt" => SlotState' # "unbuilt"
     /\ SlotState = "built" => SlotState' = "built"
     /\ cachedHandler # 0 => cachedHandler' = cachedHandler]_vars

C11_Witness ==
  /\ SlotState = "built"
  /\ disposeCalls >= 1
  /\ \E i, j \in Invs :
       /\ inv[i].slow /\ ~inv[j].slow
       /\ inv[i].servedBy = cachedHandler /\ inv[j].servedBy = cachedHandler
       /\ inv[i].pc = "done" /\ inv[j].pc = "done"

\* C12: a lookup in the merged context yields the request context's value for
\* a tag the request context holds, also when the layer provides that tag too,
\* and the layer's value for every other tag.
C12_OverlayWins ==
  \A i \in Invs : LogicRan(i) =>
    /\ LayerContext["Env"] # Absent
    /\ inv[i].seen["Env"] = inv[i].env
    /\ inv[i].seen["ExecutionContext"] = "ctx" \o ToString(i)
    /\ inv[i].seen["Svc"] = LayerContext["Svc"]
    /\ \A k \in Kinds \ {"fetch"} :
         inv[i].seen[EventTag(k)] =
           IF k = inv[i].kind THEN "event" \o ToString(i) ELSE Absent

C12_Witness ==
  \E i \in Invs :
    /\ LogicRan(i)
    /\ inv[i].kind = "queue"
    /\ inv[i].seen["Env"] = "e2"
    /\ inv[i].seen["Svc"] = "svc"
    /\ inv[i].seen["MessageBatch"] = "event" \o ToString(i)

\* C13: making and providing a request context never changes the context of
\* the materialized runtime, nor the env the host passed to an invocation.
C13_MergeFrame ==
  [][/\ registry' \in {EmptyContext, LayerContext}
     /\ registry # EmptyContext => registry' = registry
     /\ \A i \in Invs : inv[i].pc # "idle" =>
          /\ inv'[i].env = inv[i].env
          /\ overlay'[i]["Env"] \in {Absent, inv[i].env}]_vars

C13_Witness ==
  /\ registry = LayerContext
  /\ \E i, j \in Invs :
       /\ i # j
       /\ LogicRan(i) /\ LogicRan(j)
       /\ inv[i].env # inv[j].env
       /\ inv[i].kind # inv[j].kind
       /\ inv[i].seen["Svc"] = "svc" /\ inv[j].seen["Svc"] = "svc"

\* C14: a background fiber forked with waitUntil is not interrupted when the
\* invocation that forked it returns its result.
C14_NotInterrupted ==
  \A f \in Fibers : fibers[f].st # "interrupted"

\* C15: the outcome of an invocation is the outcome of its own business
\* logic, whatever the background fibers it forked ended with, and no promise
\* handed to the host's waitUntil rejects.
C15_BackgroundFailureContained ==
  /\ primary.pc = "returned" =>
       /\ primary.logic \in LogicOutcomes
       /\ primary.result = ResultOf(variant, primary.kind, primary.logic)
  /\ \A f \in Fibers : fibers[f].promise # "rejected"

C15_Witness ==
  /\ primary.pc = "returned"
  /\ primary.logic = "ok"
  /\ primary.result \in {"status200", "completed"}
  /\ \E f, g \in Fibers :
       /\ fibers[f].st = "failed" /\ fibers[f].promise = "resolved"
       /\ fibers[g].st = "died"

\* C16: every background fiber that ended with a failure or a defect has an
\* error log entry once the fiber awaiting it for the host has seen its exit.
C16_BackgroundFailureLogged ==
  \A f \in Fibers :
    fibers[f].st \in {"failed", "died"} /\ fibers[f].promise = "resolved" =>
      fibers[f].logged

\* C17: the export object of makeEntrypoint has an entry for an event kind
\* exactly when options.handlers holds business logic for that kind.
C17_ExportsIffSupplied ==
  constructed /\ variant = "bundle" =>
    \A k \in Kinds : k \in handlers <=> k \in supplied

C17_Witness ==
  /\ variant = "bundle"
  /\ supplied = {"fetch", "queue"}
  /\ handlers = {"fetch", "queue"}
  /\ \E i, j \in Invs :
       /\ inv[i].kind = "fetch" /\ inv[i].pc = "done"
       /\ inv[j].kind = "queue" /\ inv[j].pc = "done"

\* C18: the entries of one makeEntrypoint export share one runtime: over the
\* invocations of all its kinds the layer is constructed at most once.
C18_BundleSharesRuntime ==
  variant = "bundle" =>
    /\ initCount <= 1
    /\ \A i \in Invs : inv[i].mat = "ok" => initCount = 1 /\ rt.fiber = "done"

C18_Witness ==
  /\ variant = "bundle"
  /\ initCount = 1
  /\ \E i, j \in Invs :
       /\ inv[i].kind # inv[j].kind
       /\ i \in inv[j].overlap
       /\ inv[i].mat = "ok" /\ inv[j].mat = "ok"
       /\ inv[i].pc = "done" /\ inv[j].pc = "done"

C20_StylesSameContext ==
  \A i \in Invs : LogicRan(i) =>
    /\ inv[i].seen = MergeContext(LayerContext,
                       MakeRequestContext(inv[i].kind, i, inv[i].env))
    /\ style = "push" =>
         /\ inv[i].args.env = inv[i].seen["Env"]
         /\ inv[i].args.ctx = inv[i].seen["ExecutionContext"]
         /\ inv[i].kind # "fetch" =>
              inv[i].args.event = inv[i].seen[EventTag(inv[i].kind)]
    /\ style = "pull" => inv[i].args = NoArgs

C20_Witness ==
  /\ style = "push"
  /\ variant = "email"
  /\ \E i \in Invs :
       /\ LogicRan(i)
       /\ inv[i].args.env = inv[i].env
       /\ inv[i].seen["ForwardableEmailMessage"] = inv[i].args.event

C24_DisposeLeavesInFlight ==
  [][/\ disposeCalls' # disposeCalls => inv' = inv
     /\ \A i \in Invs :
          (rt.closed /\ inv[i].pc = "running" /\ inv'[i].pc = "done") =>
            /\ inv'[i].logic \in LogicOutcomes
            /\ inv'[i].result = ResultOf(variant, inv[i].kind, inv'[i].logic)]_vars

C24_Witness ==
  /\ variant = "queue"
  /\ rt.closed
  /\ \E i, j \in Invs :
       /\ i \in inv[j].overlap
       /\ ~inv[i].closedAtStart /\ inv[j].closedAtStart
       /\ inv[i].pc = "done" /\ inv[i].logic = "ok"
       /\ inv[i].result = "completed"

\* C25: the layer is constructed at most once and the runtime is closed at
\* most once: once dispose() has run the runtime stays closed and nothing
\* constructs the layer again.
C25_NoRematerialization ==
  [][/\ initCount' <= 1
     /\ \A x \in Resources : released'[x] <= 1
     /\ rt.closed => (rt'.closed /\ initCount' = initCount
                      /\ acquired' = acquired /\ released' = released)]_vars

C25_Witness ==
  /\ rt.closed
  /\ initCount = 1
  /\ \E i, j \in Invs :
       /\ ~inv[i].closedAtStart /\ inv[i].mat = "ok" /\ inv[i].pc = "done"
       /\ inv[j].closedAtStart /\ inv[j].pc = "done"

\* C26: a release action of the layer runs only in a dispose() call: no step
\* of an invocation changes the release counts, and before the first
\* dispose() call no release action has run.
C26_ReleaseOnlyInDispose ==
  [][/\ released' # released => disposeCalls' = disposeCalls + 1
     /\ disposeCalls' = 0 => \A x \in Resources : released'[x] = 0]_vars

C26_Witness ==
  /\ disposeCalls = 0
  /\ acquired = Resources
  /\ \A x \in Resources : released[x] = 0
  /\ \E i, j \in Invs :
       /\ inv[i].pc = "done" /\ inv[i].logic = "fail"
       /\ inv[j].pc = "done" /\ inv[j].logic = "die"

C29_FailureIsolated ==
  [][/\ \A i \in Invs :
          (inv[i].pc = "running" /\ inv'[i].pc = "done") =>
            UNCHANGED <<rt, initCount, acquired, released, builds,
                        cachedHandler, registry>>
     /\ \A j \in Invs :
          inv'[j].logic = "ok" => inv'[j].result \in {"status200", "completed"}]_vars

C29_Witness ==
  \E i, j \in Invs :
    /\ i < j
    /\ i \notin inv[j].overlap
    /\ inv[i].logic \in {"fail", "die"} /\ inv[i].result = "rejected"
    /\ inv[j].logic = "ok" /\ inv[j].result = "completed"
    /\ inv[j].mat = "ok"

BatchIds == {batch[n].id : n \in DOMAIN batch}

\* C23: after a queue invocation whose logic acks each message with a body
\* that indicates success and retries each other one, the acked ids and the
\* retried ids are disjoint and together are the ids of the whole batch.
C23_AckRetryPartition ==
  queue.pc = "returned" =>
    /\ acked \cap retried = {}
    /\ acked \cup retried = BatchIds
    /\ acked = {batch[n].id : n \in {m \in DOMAIN batch : ShouldAck(batch[m].body)}}

C23_Witness ==
  /\ queue.pc = "returned"
  /\ Len(batch) = 3
  /\ acked = {"msg-0", "msg-2"}
  /\ retried = {"msg-1"}

\* C27: once the adapter's dispose() has run, no background fiber forked with
\* waitUntil is still running.
C27_NoBackgroundAfterDispose ==
  rt.closed => \A f \in Fibers : fibers[f].st # "running"

\* C31: when the build of the handler cache has failed the slot is not reset:
\* no later invocation starts a new build, no handler is cached, and every
\* invocation, the first and the later ones, fails with that build's failure.
C31_BuildFailureShared ==
  (Len(builds) >= 1 /\ builds[1] = "rejected") =>
    /\ Len(builds) = 1
    /\ cachedHandler = 0
    /\ buildError[1] # "none"
    /\ \A i \in Invs :
         /\ inv[i].pc \in {"idle", "awaitHandler", "done"}
         /\ inv[i].pc = "awaitHandler" => inv[i].awaits = 1
         /\ inv[i].pc = "done" =>
              /\ inv[i].result = "rejected"
              /\ inv[i].error = buildError[1]
              /\ ~LogicRan(i)

C31_Witness ==
  /\ builds = <<"rejected">>
  /\ buildError[1] = "build"
  /\ \E i, j \in Invs :
       /\ i < j
       /\ i \notin inv[j].overlap
       /\ inv[i].pc = "done" /\ inv[j].pc = "done"
       /\ inv[i].error = "build" /\ inv[j].error = "build"
       /\ inv[i].result = "rejected" /\ inv[j].result = "rejected"

\* C32: in push style the three arguments of the handler function and the
\* lookups in its context describe the same invocation: the event, the env
\* and the execution context the host passed to that invocation, and no other
\* invocation's.
C32_PushArgsOfInvocation ==
  \A i \in Invs : (style = "push" /\ inv[i].pc = "done" /\ inv[i].starts >= 1) =>
    /\ inv[i].args.env = inv[i].env
    /\ inv[i].args.event = "event" \o ToString(i)
    /\ inv[i].args.ctx = "ctx" \o ToString(i)
    /\ LogicRan(i) /\ ~inv[i].throws =>
         /\ inv[i].seenEnv = inv[i].args.env
         /\ inv[i].seen["ExecutionContext"] = inv[i].args.ctx
         /\ inv[i].kind # "fetch" => inv[i].seenEvent = inv[i].args.event
    /\ \A j \in Invs \ {i} : inv[j].pc # "idle" =>
         /\ inv[i].args.event # inv[j].args.event
         /\ inv[i].args.ctx # inv[j].args.ctx

C32_Witness ==
  /\ style = "push"
  /\ \E i, j \in Invs :
       /\ i < j
       /\ i \in inv[j].overlap
       /\ inv[i].pc = "done" /\ inv[j].pc = "done"
       /\ LogicRan(i) /\ LogicRan(j)
       /\ ~inv[i].throws /\ ~inv[j].throws
       /\ inv[i].args.env = "e1" /\ inv[j].args.env = "e2"
       /\ inv[j].seenEnv = "e2"
       /\ inv[j].seenEvent = "event" \o ToString(j)

\* C35: in an entrypoint bundle the invocations of different kinds share one
\* runtime, yet none observes another's per-invocation values: each sees its
\* own env, execution context and event wrapper, and the wrapper of every
\* other kind is absent from its context, also when the invocations overlap.
C35_BundleKindsIsolated ==
  variant = "bundle" =>
    \A i \in Invs : LogicRan(i) =>
      /\ inv[i].seenEnv = inv[i].env
      /\ inv[i].seen["Svc"] = LayerContext["Svc"]
      /\ \A k \in Kinds \ {"fetch", inv[i].kind} : inv[i].seen[EventTag(k)] = Absent
      /\ \A j \in Invs \ {i}, t \in Tags :
           /\ inv[i].seen[t] # "event" \o ToString(j)
           /\ inv[i].seen[t] # "ctx" \o ToString(j)

C35_Witness ==
  /\ variant = "bundle"
  /\ \E i, j \in Invs :
       /\ i \in inv[j].overlap
       /\ inv[i].kind = "fetch" /\ inv[j].kind = "queue"
       /\ inv[i].env # inv[j].env
       /\ LogicRan(i) /\ LogicRan(j)
       /\ inv[j].seen["MessageBatch"] = "event" \o ToString(j)
       /\ inv[i].seen["MessageBatch"] = Absent

\* C39: no invocation uses a resource of the layer after its release action
\* has run: once dispose() has released the resources, no invocation that
\* starts afterwards is served by the handler built on them.
C39_NoUseAfterRelease ==
  \A i \in Invs :
    (inv[i].closedAtStart /\ \E x \in Resources : released[x] >= 1) =>
      /\ ~Served(i)
      /\ ~LogicRan(i)

\* C33: the promise handed to the host's waitUntil does not settle before the
\* background computation it stands for has ended.
C33_PromiseAfterBackground ==
  \A f \in Fibers :
    /\ fibers[f].promise \in {"resolved", "rejected"} =>
         fibers[f].st \in {"succeeded", "failed", "died", "interrupted"}
    /\ fibers[f].st \in {"none", "running"} =>
         fibers[f].promise \in {"none", "pending"}

C33_Witness ==
  \E f, g \in Fibers :
    /\ f # g
    /\ fibers[f].st = "failed" /\ fibers[f].promise = "resolved"
    /\ fibers[g].st = "running" /\ fibers[g].promise = "pending"

\* C34: each execution of waitUntil starts its background computation once
\* and registers exactly one promise with the host's waitUntil: after k
\* executions the host holds k promises, one for each of the k computations.
C34_OnePromisePerCall ==
  /\ primary.registered = primary.calls
  /\ Cardinality({f \in Fibers : fibers[f].st # "none"}) = primary.calls
  /\ Cardinality({f \in Fibers : fibers[f].promise # "none"}) = primary.calls

C34_Witness ==
  /\ primary.calls = MaxBg
  /\ primary.registered = MaxBg
  /\ \A f \in Fibers : fibers[f].promise # "none"
  /\ primary.pc = "returned"

\* C36: a middleware supplied to the fetch adapter is applied exactly once,
\* in the build and before the handler is cached, and every invocation is
\* served by the transformed app, never by the app without the middleware.
C36_MiddlewareOnce ==
  middleware =>
    /\ applied <= 1
    /\ cachedHandler # 0 => (applied = 1 /\ handlerApp = "middleware(app)")
    /\ cachedHandler = 0 /\ (\A b \in 1..Len(builds) : builds[b] # "resolved") =>
         applied = 0
    /\ \A i \in Invs : (Served(i) /\ LogicRan(i)) =>
         /\ applied = 1
         /\ inv[i].app = "middleware(app)"

C36_Witness ==
  /\ middleware
  /\ applied = 1
  /\ \E i, j \in Invs :
       /\ i # j
       /\ inv[i].slow /\ ~inv[j].slow
       /\ LogicRan(i) /\ LogicRan(j)
       /\ inv[i].app = "middleware(app)" /\ inv[j].app = "middleware(app)"

\* C38: no invocation waits forever on the shared build or materialization:
\* an invocation that awaits the handler build or the runtime is resumed once
\* that settles, and with business logic that terminates every invocation
\* that was started returns its result, however many wait together.
C38_NoWaitForever ==
  \A i \in Invs :
    (inv[i].pc \in {"awaitHandler", "awaitRuntime", "running"}) ~> (inv[i].pc = "done")

C38_Witness ==
  /\ \A i \in Invs :
       /\ inv[i].slow
       /\ inv[i].pc = "done"
       /\ inv[i].logic = "ok"
       /\ \A j \in Invs : j < i => j \in inv[i].overlap

\* C37: the policy after teardown is the same for every kind and variant of
\* adapter, cached entrypoint or not. An adapter whose runtime was never
\* materialized before dispose() cannot serve afterwards (C25), so under one
\* policy no adapter serves an invocation when dispose() completed before its
\* first invocation.
C37_PostDisposeSamePolicy ==
  \A i \in Invs :
    (/\ inv[i].pc = "done"
     /\ ~inv[i].throws
     /\ \A j \in Invs : j <= i => inv[j].closedAtStart) => ~LogicRan(i)

====
